---- MODULE Spec2Model ----
(***************************************************************************)
(* A model of rotate_image/natural_image.py and rotate_image/white_image.py *)
(*                                                                         *)
(* natural_image pastes six textures on the faces of a cube and resamples  *)
(* the cube on an azimuth x elevation grid.  Numbers are modelled exactly: *)
(*   - an angle is an integer number of grid units (pi/x_pixels for theta, *)
(*     pi/(2*y_pixels) for phi);                                           *)
(*   - a coordinate is a record [s, q]: its sign and 16 times its square,  *)
(*     which is an integer on the grids of GridXs x GridYs (all angles are *)
(*     multiples of pi/4 or pi/6);                                         *)
(*   - a texture value is a fraction <<n, d>>; d = 0 is numpy's nan/inf.   *)
(* IEEE rounding of sin, cos and the products is not modelled.             *)
(* Float slice indices are truncated, as the numpy of the code's time did. *)
(***************************************************************************)
EXTENDS Integers, Sequences, FiniteSets

VARIABLES pc, err, x_pixels, y_pixels, image, sel, im, im_res,
          theta_vals, phi_vals, i, j, writes, trace, upsample, image_0

vars == <<pc, err, x_pixels, y_pixels, image, sel, im, im_res,
          theta_vals, phi_vals, i, j, writes, trace, upsample, image_0>>

\* ------------------------------------------------------------------ bounds

\* side length D of the library images
TexSide == 4
\* number of images in the library
LibSize == 2
\* raw library pixels are in 0..PixelRange-1
PixelRange == 7
\* the any-order specification takes grids of at most this many cells
MaxParCells == 4
\* white_image is run on images of at most this many pixels a side
MaxWhite == 3

\* pixel counts natural_image is called with: the grids whose angles have
\* rational squared sines and cosines, and the non-positive counts -1 and 0
GridXs == {-1, 0, 1, 2, 3, 4, 6}
GridYs == {-1, 0, 1, 2, 3}

\* ------------------------------------------------------------------ numbers

NaN == <<0, 0>>
Zero == <<0, 1>>

Sign(a) == IF a > 0 THEN 1 ELSE IF a < 0 THEN -1 ELSE 0

\* float division a / b of two integers, b >= 0
FDiv(a, b) == IF b = 0 THEN <<Sign(a), 0>> ELSE <<a, b>>

IsFinite(v) == v[2] > 0
In01(v) == v[2] > 0 /\ 0 <= v[1] /\ v[1] <= v[2]
RatEq(a, b) == IsFinite(a) /\ IsFinite(b) /\ a[1] * b[2] = b[1] * a[2]

RECURSIVE Gcd(_, _)
Gcd(a, b) == IF b = 0 THEN a ELSE Gcd(b, a % b)

\* the fraction n / d, d > 0, in lowest terms
Reduce(n, d) ==
  LET g == Gcd(IF n < 0 THEN 0 - n ELSE n, d) IN <<n \div g, d \div g>>

RAdd(a, b) ==
  IF a[2] = 0 \/ b[2] = 0 THEN NaN
  ELSE IF a[2] = b[2] THEN <<a[1] + b[1], a[2]>>
  ELSE Reduce(a[1] * b[2] + b[1] * a[2], a[2] * b[2])

RECURSIVE RSum(_, _)
RSum(t, S) ==
  IF S = {} THEN Zero
  ELSE LET p == CHOOSE p \in S : TRUE
       IN  IF S = {p} THEN t[p] ELSE RAdd(t[p], RSum(t, S \ {p}))

SetMin(S) == CHOOSE m \in S : \A n \in S : m <= n
SetMax(S) == CHOOSE m \in S : \A n \in S : m >= n

\* ------------------------------------------------------------------ textures

TexNames == {"im1", "im2", "im3", "im4", "im_top", "im_bot"}
Pixels == (0 .. TexSide - 1) \X (0 .. TexSide - 1)

\* the image library: image 0 is constant-valued, the others are not
image_lib(k) ==
  [p \in Pixels |-> (k * (p[1] * p[1] + 2 * p[2] + k)) % PixelRange]

flipud(t) == [p \in Pixels |-> t[<<TexSide - 1 - p[1], p[2]>>]]

Range(t) == {t[p] : p \in DOMAIN t}

Normalize(t) ==
  LET mn == SetMin(Range(t))
      mx == SetMax(Range(t))
  IN  [p \in DOMAIN t |-> FDiv(t[p] - mn, mx - mn)]

\* a Python slice lo:hi of an axis of length n
Slice(lo, hi, n) ==
  LET cl(a) == IF a < 0 THEN (IF a + n < 0 THEN 0 ELSE a + n)
               ELSE (IF a > n THEN n ELSE a)
  IN  cl(lo) .. (cl(hi) - 1)

\* np.mean(t[rows, cols])
Mean(t, rows, cols) ==
  IF rows = {} \/ cols = {} THEN NaN
  ELSE LET s == RSum(t, rows \X cols)
       IN  IF s[2] = 0 THEN NaN ELSE <<s[1], s[2] * Cardinality(rows \X cols)>>

\* ------------------------------------------------------------------ the grid

\* linspace with endpoint=False: the step divides by num, not num - 1
linspaceNoEndpoint(start, stop, num) ==
  IF num <= 0 THEN <<>>
  ELSE IF num = 1 THEN <<start>>
  ELSE [k \in 1 .. num |-> start + (k - 1) * ((stop - start) \div num)]

linspace(start, stop, num) ==
  IF num <= 0 THEN <<>>
  ELSE IF num = 1 THEN <<start>>
  ELSE [k \in 1 .. num |-> start + (k - 1) * ((stop - start) \div (num - 1))]

Midpoints(v) == [k \in 1 .. (Len(v) - 1) |-> (v[k] + v[k + 1]) \div 2]

\* an angle of a twelfths of pi: the sign of its cosine, 4 times its square
CosS(a) ==
  LET m == a % 24 IN IF m < 6 \/ m > 18 THEN 1 ELSE IF m = 6 \/ m = 18 THEN 0 ELSE -1
Cos4(a) ==
  LET r == a % 12
      f == IF r > 6 THEN 12 - r ELSE r
  IN  CASE f = 0 -> 4 [] f = 2 -> 3 [] f = 3 -> 2 [] f = 4 -> 1 [] f = 6 -> 0
SinS(a) == CosS(a - 6)
Sin4(a) == Cos4(a - 6)

\* theta_vals[j] and phi_vals[i] (0-based) in twelfths of pi
ThetaAt(c) == (theta_vals[c + 1] * 12) \div x_pixels
PhiAt(r) == (phi_vals[r + 1] * 6) \div y_pixels

x(c, r) == [s |-> CosS(ThetaAt(c)) * SinS(PhiAt(r)), q |-> Cos4(ThetaAt(c)) * Sin4(PhiAt(r))]
y(c, r) == [s |-> SinS(ThetaAt(c)) * SinS(PhiAt(r)), q |-> Sin4(ThetaAt(c)) * Sin4(PhiAt(r))]
z(r) == [s |-> CosS(PhiAt(r)), q |-> 4 * Cos4(PhiAt(r))]

\* ------------------------------------------------------------------ the loop body

\* >= in place of >
AbsGe(a, b) == a.q >= b.q

\* |a| > |b|
AbsGt(a, b) == a.q > b.q

\* m >= s * R * sqrt(p / q), for q > 0
GeqRoot(m, s, p, q, R) ==
  IF s = 0 \/ p = 0 THEN m >= 0
  ELSE IF s > 0 THEN m >= 0 /\ m * m * q >= R * R * p
  ELSE m >= 0 \/ m * m * q <= R * R * p

\* np.ceil((u / np.abs(d) + 1) / 2 * R)
Ind(u, d, R) ==
  CHOOSE n \in (0 - 2 * R) .. (3 * R) :
    /\ GeqRoot(2 * n - R, u.s, u.q, d.q, R)
    /\ ~GeqRoot(2 * (n - 1) - R, u.s, u.q, d.q, R)

\* the face the sample falls on, as the texture pasted there
Face(vx, vy, vz) ==
  IF AbsGt(vx, vy) /\ AbsGt(vx, vz) THEN (IF vx.s > 0 THEN "im1" ELSE "im3")
  ELSE IF AbsGt(vy, vz) THEN (IF vy.s > 0 THEN "im2" ELSE "im4")
  ELSE (IF vz.s > 0 THEN "im_top" ELSE "im_bot")

\* the row and column index into the face's texture
RowInd(vx, vy, vz, R) ==
  IF AbsGt(vx, vy) /\ AbsGt(vx, vz) THEN Ind(vz, vx, R)
  ELSE IF AbsGt(vy, vz) THEN Ind(vz, vy, R)
  ELSE Ind(vy, vz, R)
ColInd(vx, vy, vz, R) ==
  IF AbsGt(vx, vy) /\ AbsGt(vx, vz) THEN Ind(vy, vx, R)
  ELSE IF AbsGt(vy, vz) THEN Ind(vx, vy, R)
  ELSE Ind(vx, vz, R)

\* t[r-1:r+1, c-1:c+1]
Block(t, r, c) == Mean(t, Slice(r - 1, r + 1, TexSide), Slice(c - 1, c + 1, TexSide))

Sample(r, c) ==
  [face |-> Face(x(c, r), y(c, r), z(r)),
   r |-> RowInd(x(c, r), y(c, r), z(r), im_res),
   c |-> ColInd(x(c, r), y(c, r), z(r), im_res)]

\* a body that smooths with the pixel to the left, read back from the image
LoopBodyCarry(img, r, c) ==
  LET sm == Sample(r, c)
      v == Block(im[sm.face], sm.r, sm.c)
  IN  [img EXCEPT ![<<r, c>>] =
         IF c > 0 THEN RAdd(<<v[1], 2 * v[2]>>, <<img[<<r, c - 1>>][1], 2 * img[<<r, c - 1>>][2]>>)
         ELSE v]

\* one pass of the body of the loops: image[i,j] = np.mean(...)
LoopBody(img, r, c) ==
  LET sm == Sample(r, c)
  IN  [img EXCEPT ![<<r, c>>] = Block(im[sm.face], sm.r, sm.c)]

\* ------------------------------------------------------------------ natural_image

Cells(ny, nx) == (0 .. ny - 1) \X (0 .. nx - 1)

\* no check of the dimensions
ZerosAny(ny, nx) == TRUE

\* np.zeros((y_pixels, x_pixels)) raises ValueError on a negative dimension
ZerosOk(ny, nx) == ny >= 0 /\ nx >= 0

\* the inner loop stops one column early
NextCellShort(r, c) == IF c + 1 < x_pixels - 1 THEN <<r, c + 1>> ELSE <<r + 1, 0>>

NextCell(r, c) == IF c + 1 < x_pixels THEN <<r, c + 1>> ELSE <<r + 1, 0>>

Exhausted == i >= y_pixels \/ x_pixels <= 0

InitCommon ==
  /\ pc = "start"
  /\ err = "none"
  /\ image = <<>>
  /\ sel = <<>>
  /\ im = <<>>
  /\ im_res = 0
  /\ theta_vals = <<>>
  /\ phi_vals = <<>>
  /\ i = 0
  /\ j = 0
  /\ writes = <<>>
  /\ trace = <<>>
  /\ image_0 = <<>>

Init ==
  /\ InitCommon
  /\ x_pixels \in GridXs
  /\ y_pixels \in GridYs
  /\ upsample = 1

Alloc ==
  /\ pc = "start"
  /\ ZerosOk(y_pixels, x_pixels)
  /\ image' = [p \in Cells(y_pixels, x_pixels) |-> Zero]
  /\ writes' = [p \in Cells(y_pixels, x_pixels) |-> 0]
  /\ pc' = "alloc"
  /\ UNCHANGED <<err, x_pixels, y_pixels, sel, im, im_res, theta_vals, phi_vals,
                 i, j, trace, upsample, image_0>>

AllocFail ==
  /\ pc = "start"
  /\ ~ZerosOk(y_pixels, x_pixels)
  /\ pc' = "error"
  /\ err' = "ValueError"
  /\ UNCHANGED <<x_pixels, y_pixels, image, sel, im, im_res, theta_vals, phi_vals,
                 i, j, writes, trace, upsample, image_0>>

Select ==
  /\ pc = "alloc"
  /\ LET flipped == [k \in 0 .. (LibSize - 1) |-> flipud(image_lib(k))]
     IN  \E s \in [TexNames -> 0 .. (LibSize - 1)] :
           /\ sel' = s
           /\ im' = [n \in TexNames |-> flipped[s[n]]]
  /\ pc' = "selected"
  /\ UNCHANGED <<err, x_pixels, y_pixels, image, im_res, theta_vals, phi_vals,
                 i, j, writes, trace, upsample, image_0>>

NormalizeAll ==
  /\ pc = "selected"
  /\ im' = [n \in TexNames |-> Normalize(im[n])]
  /\ im_res' = TexSide - 2
  /\ pc' = "normalized"
  /\ UNCHANGED <<err, x_pixels, y_pixels, image, sel, theta_vals, phi_vals,
                 i, j, writes, trace, upsample, image_0>>

Grid ==
  /\ pc = "normalized"
  /\ theta_vals' = Midpoints(linspace(0, 2 * x_pixels, x_pixels + 1))
  /\ phi_vals' = Midpoints(linspace(0, 2 * y_pixels, y_pixels + 1))
  /\ i' = 0
  /\ j' = 0
  /\ pc' = "loop"
  /\ UNCHANGED <<err, x_pixels, y_pixels, image, sel, im, im_res,
                 writes, trace, upsample, image_0>>

LoopStep ==
  /\ pc = "loop"
  /\ ~Exhausted
  /\ image' = LoopBody(image, i, j)
  /\ writes' = [writes EXCEPT ![<<i, j>>] = @ + 1]
  /\ trace' = [p \in (DOMAIN trace) \cup {<<i, j>>} |->
                 IF p = <<i, j>> THEN Sample(i, j) ELSE trace[p]]
  /\ i' = NextCell(i, j)[1]
  /\ j' = NextCell(i, j)[2]
  /\ UNCHANGED <<pc, err, x_pixels, y_pixels, sel, im, im_res, theta_vals, phi_vals,
                 upsample, image_0>>

Return ==
  /\ pc = "loop"
  /\ Exhausted
  /\ pc' = "done"
  /\ UNCHANGED <<err, x_pixels, y_pixels, image, sel, im, im_res, theta_vals, phi_vals,
                 i, j, writes, trace, upsample, image_0>>

Next == Alloc \/ AllocFail \/ Select \/ NormalizeAll \/ Grid \/ LoopStep \/ Return

Spec == Init /\ [][Next]_vars

\* ------------------------------------------------------------------ any-order loop

\* the image the row-major loops leave, from cell (r, c) on
RECURSIVE SeqFill(_, _, _)
SeqFill(img, r, c) ==
  IF r >= y_pixels \/ x_pixels <= 0 THEN img
  ELSE SeqFill(LoopBody(img, r, c), NextCell(r, c)[1], NextCell(r, c)[2])

InitPar ==
  /\ InitCommon
  /\ x_pixels \in {n \in GridXs : n > 0}
  /\ y_pixels \in {n \in GridYs : n > 0}
  /\ x_pixels * y_pixels <= MaxParCells
  /\ upsample = 1

\* a worker takes any cell not yet done and runs the loop body on it
ParStep ==
  /\ pc = "loop"
  /\ \E p \in DOMAIN writes :
       /\ writes[p] = 0
       /\ image' = LoopBody(image, p[1], p[2])
       /\ writes' = [writes EXCEPT ![p] = @ + 1]
       /\ trace' = [t \in (DOMAIN trace) \cup {p} |->
                      IF t = p THEN Sample(p[1], p[2]) ELSE trace[t]]
  /\ UNCHANGED <<pc, err, x_pixels, y_pixels, sel, im, im_res, theta_vals, phi_vals,
                 i, j, upsample, image_0>>

\* the barrier: every cell is done
ParReturn ==
  /\ pc = "loop"
  /\ \A p \in DOMAIN writes : writes[p] >= 1
  /\ pc' = "done"
  /\ UNCHANGED <<err, x_pixels, y_pixels, image, sel, im, im_res, theta_vals, phi_vals,
                 i, j, writes, trace, upsample, image_0>>

NextPar == Alloc \/ Select \/ NormalizeAll \/ Grid \/ ParStep \/ ParReturn

SpecPar == InitPar /\ [][NextPar]_vars

\* ------------------------------------------------------------------ white_image

InitWhite ==
  /\ InitCommon
  /\ x_pixels \in 1 .. MaxWhite
  /\ y_pixels \in 1 .. MaxWhite
  /\ upsample \in 1 .. MaxWhite

\* image_0 = (np.random.rand(y_pixels/upsample, x_pixels/upsample) < 0.5)
WCoarse ==
  /\ pc = "start"
  /\ image_0' \in [Cells(y_pixels \div upsample, x_pixels \div upsample) -> {0, 1}]
  /\ pc' = "coarse"
  /\ UNCHANGED <<err, x_pixels, y_pixels, image, sel, im, im_res, theta_vals, phi_vals,
                 i, j, writes, trace, upsample>>

WAlloc ==
  /\ pc = "coarse"
  /\ image' = [p \in Cells(y_pixels, x_pixels) |-> 0]
  /\ writes' = [p \in Cells(y_pixels, x_pixels) |-> 0]
  /\ i' = 0
  /\ j' = 0
  /\ pc' = "loop"
  /\ UNCHANGED <<err, x_pixels, y_pixels, sel, im, im_res, theta_vals, phi_vals,
                 trace, upsample, image_0>>

Coarse(r, c) == <<r \div upsample, c \div upsample>>

WStep ==
  /\ pc = "loop"
  /\ ~Exhausted
  /\ Coarse(i, j) \in DOMAIN image_0
  /\ image' = [image EXCEPT ![<<i, j>>] = image_0[Coarse(i, j)]]
  /\ writes' = [writes EXCEPT ![<<i, j>>] = @ + 1]
  /\ i' = NextCell(i, j)[1]
  /\ j' = NextCell(i, j)[2]
  /\ UNCHANGED <<pc, err, x_pixels, y_pixels, sel, im, im_res, theta_vals, phi_vals,
                 trace, upsample, image_0>>

WIndexError ==
  /\ pc = "loop"
  /\ ~Exhausted
  /\ Coarse(i, j) \notin DOMAIN image_0
  /\ pc' = "error"
  /\ err' = "IndexError"
  /\ UNCHANGED <<x_pixels, y_pixels, image, sel, im, im_res, theta_vals, phi_vals,
                 i, j, writes, trace, upsample, image_0>>

WReturn ==
  /\ pc = "loop"
  /\ Exhausted
  /\ pc' = "done"
  /\ UNCHANGED <<err, x_pixels, y_pixels, image, sel, im, im_res, theta_vals, phi_vals,
                 i, j, writes, trace, upsample, image_0>>

NextWhite == WCoarse \/ WAlloc \/ WStep \/ WIndexError \/ WReturn

SpecWhite == InitWhite /\ [][NextWhite]_vars

\* ------------------------------------------------------------------ claims

InRange(n) == 1 <= n /\ n <= TexSide - 2
XFaces == {"im1", "im3"}
YFaces == {"im2", "im4"}
ZFaces == {"im_top", "im_bot"}
Degenerate(k) == \A p \in Pixels, o \in Pixels : image_lib(k)[p] = image_lib(k)[o]

\* C1: for every sample the loop has processed, both texture indices the
\* projector computed lie in 1 .. D-2; none is 0, ties included.
C1_IndicesInRange ==
  \A p \in DOMAIN trace : InRange(trace[p].r) /\ InRange(trace[p].c)

\* C2: the value written to a pixel is the mean of the nine texture entries
\* of rows r-1..r+1 and columns c-1..c+1 around the projected pixel (r, c).
C2_MeanOf3x3 ==
  \A p \in DOMAIN trace :
    (InRange(trace[p].r) /\ InRange(trace[p].c) /\ IsFinite(im[trace[p].face][<<0, 0>>]))
      => RatEq(image[p],
               Mean(im[trace[p].face], (trace[p].r - 1) .. (trace[p].r + 1),
                    (trace[p].c - 1) .. (trace[p].c + 1)))

\* C3: with positive pixel counts and six textures normalized into [0,1], the
\* returned image has shape (y_pixels, x_pixels) and every cell is in [0,1].
C3_ShapeAndRange ==
  (pc = "done" /\ x_pixels > 0 /\ y_pixels > 0
     /\ \A n \in TexNames : \A p \in Pixels : In01(im[n][p]))
    => /\ DOMAIN image = Cells(y_pixels, x_pixels)
       /\ \A p \in DOMAIN image : In01(image[p])

\* C4: the face of a processed sample is +X/-X (by the sign of x) iff
\* |x|>|y| and |x|>|z|; otherwise +Y/-Y (by the sign of y) iff |y|>|z|;
\* otherwise +Z/-Z (by the sign of z).  A sample with |x| = |y| is on no X
\* face and one with |y| = |z| is on no Y face.
C4_FaceRule ==
  \A p \in DOMAIN trace :
    LET vx == x(p[2], p[1])
        vy == y(p[2], p[1])
        vz == z(p[1])
        f == trace[p].face
        xdom == vx.q > vy.q /\ vx.q > vz.q
        ydom == ~xdom /\ vy.q > vz.q
    IN  /\ f \in XFaces <=> xdom
        /\ f \in YFaces <=> ydom
        /\ f \in ZFaces <=> (~xdom /\ ~ydom)
        /\ f = "im1" <=> (xdom /\ vx.s > 0)
        /\ f = "im2" <=> (ydom /\ vy.s > 0)
        /\ f = "im_top" <=> (~xdom /\ ~ydom /\ vz.s > 0)
        /\ vx.q = vy.q => f \notin XFaces
        /\ vy.q = vz.q => f \notin YFaces

C4_TieProcessed ==
  \E p \in DOMAIN trace :
    /\ x(p[2], p[1]).q = y(p[2], p[1]).q
    /\ trace[p].face \in YFaces

\* C5: when one of the six selected textures is constant-valued the run ends
\* in a DegenerateTextureError at normalization, and no returned image has a
\* nan cell.
C5_DegenerateRaises ==
  /\ (pc \in {"normalized", "loop", "done"} /\ \E n \in TexNames : Degenerate(sel[n]))
       => (pc = "error" /\ err = "DegenerateTextureError")
  /\ pc = "done" => \A p \in DOMAIN image : image[p] # NaN

C7_WrittenOnce ==
  /\ [](pc = "done" =>
          /\ DOMAIN writes = Cells(y_pixels, x_pixels)
          /\ \A p \in DOMAIN writes : writes[p] = 1)
  /\ [][(pc = "loop" => im' = im)
        /\ (pc = "done" => (image' = image /\ writes' = writes))]_vars

C7_Returned ==
  pc = "done" /\ Cardinality(DOMAIN writes) >= 4 /\ \A p \in DOMAIN writes : writes[p] = 1

\* C8: when the cells are processed in any order, every cell processed
\* holds the value the row-major loops give it (and the others still hold
\* the 0 of the allocation), so the final image is the one the row-major
\* loops build.
C8_AnyOrderSameImage ==
  pc \in {"loop", "done"} =>
    LET seq == SeqFill([p \in Cells(y_pixels, x_pixels) |-> Zero], 0, 0)
    IN  /\ \A p \in DOMAIN image :
             image[p] = IF writes[p] = 0 THEN Zero ELSE seq[p]
        /\ pc = "done" => image = seq

C8_LastCellFirst ==
  /\ pc = "loop"
  /\ x_pixels * y_pixels >= 4
  /\ writes[<<0, 0>>] = 0
  /\ writes[<<y_pixels - 1, x_pixels - 1>>] = 1
  /\ image[<<y_pixels - 1, x_pixels - 1>>] # Zero

\* C9: theta_vals has x_pixels entries, the odd numbers 1, 3, ..., 2*x_pixels-1
\* in units of pi/x_pixels (first pi/x_pixels, last 2*pi - pi/x_pixels),
\* strictly increasing; phi_vals has y_pixels entries, the odd numbers in
\* units of pi/(2*y_pixels), the midpoints of the bins of [0, pi].
C9_GridMidpoints ==
  pc \in {"loop", "done"} =>
    /\ x_pixels > 0 =>
         /\ Len(theta_vals) = x_pixels
         /\ \A k \in 1 .. x_pixels : theta_vals[k] = 2 * k - 1
         /\ \A k \in 1 .. (x_pixels - 1) : theta_vals[k] < theta_vals[k + 1]
         /\ theta_vals[1] = 1
         /\ theta_vals[x_pixels] = 2 * x_pixels - 1
    /\ y_pixels > 0 =>
         /\ Len(phi_vals) = y_pixels
         /\ \A k \in 1 .. y_pixels : phi_vals[k] = 2 * k - 1
         /\ \A k \in 1 .. (y_pixels - 1) : phi_vals[k] < phi_vals[k + 1]

C9_GridBuilt ==
  pc = "loop" /\ x_pixels = 6 /\ y_pixels = 3 /\ Len(theta_vals) = 6 /\ Len(phi_vals) = 3

\* C10: for positive x_pixels, y_pixels and upsample, white_image returns a
\* y_pixels-by-x_pixels image of 0s and 1s whose pixel (i, j) is the coarse
\* value at (i div upsample, j div upsample), and no lookup leaves the coarse
\* image.
C10_WhiteImage ==
  /\ pc # "error"
  /\ pc = "done" =>
       /\ DOMAIN image = Cells(y_pixels, x_pixels)
       /\ \A p \in DOMAIN image :
            image[p] \in {0, 1} /\ image[p] = image_0[Coarse(p[1], p[2])]

====
